---- MODULE Spec2Model ----
(***************************************************************************)
(* A model of circuits.core.manager.Manager: the manager tree and its      *)
(* handler registry, the root event queue, the dispatcher, the task        *)
(* runner for suspended (generator) handlers and the flush/tick loop.      *)
(*                                                                         *)
(* One thread, DrainThread, makes the calls.  Its position in the code is  *)
(* the call stack `stack`: a handler that calls flush() again pushes a     *)
(* second flush frame on top of the one that is dispatching.               *)
(* Handlers and generators are user code: what one invocation does (fire   *)
(* events, return None / a value / a generator, raise) is chosen           *)
(* nondeterministically.  KeyboardInterrupt and SystemExit (which unwind   *)
(* the whole loop) are not modelled.                                       *)
(***************************************************************************)
EXTENDS Integers, Sequences, FiniteSets, TLC

VARIABLES
    components,   \* Manager.components, per manager
    rootOf,       \* Manager.root, per manager
    globals,      \* Manager._globals, per manager
    handlers,     \* Manager._handlers, per manager: bucket name -> set
    cache,        \* Manager._cache, per manager: (name, channels) -> list
    queue,        \* Manager._queue, per manager: sequence of event ids
    ev,           \* every event object created so far, by id (1..Len(ev))
    gens,         \* every generator object created so far, by id
    tasks,        \* the root's _tasks: set of (event, task[, parent]) tuples
    handling,     \* the root's _currently_handling (0 is None)
    exthread,     \* the root's _executing_thread
    stack,        \* call stack of DrainThread, innermost frame last
    nflush,       \* number of times the root's _queue was swapped for a
                  \* fresh deque (by _flush, and by stop)
    running,      \* the root's _running
    genev,        \* the root's _generate_event (0: no such attribute)
    other,        \* a second thread that calls fire
    call          \* the one callEvent of the program: the locals of its
                  \* waitEvent, the event it fired, what it sent back

vars == <<components, rootOf, globals, handlers, cache, queue, ev, gens,
          tasks, handling, exthread, stack, nflush, running, genev, other,
          call>>

regvars == <<components, rootOf, globals, handlers>>
runvars == <<running, genev, other, call>>

----------------------------------------------------------------------------
(* Bounds of the model                                                     *)

MaxEvents == 3      \* events created in one behaviour (fired by anyone)
MaxGens == 2        \* generator objects created in one behaviour
MaxDepth == 2       \* frames on the call stack (2: one re-entrant flush)
MaxRegEvents == 2   \* events fired while the registry and the tree change
MaxRunEvents == 6   \* events created while the manager runs
MaxOther == 1       \* calls of fire by the second thread

----------------------------------------------------------------------------
(* The universe: managers, channels, handlers                              *)

Root == "m0"
Child == "m1"
Managers == {Root, Child}

None == "None"
DrainThread == "T"

\* the `channel` attribute of a manager object (Manager itself has none)
MgrChannel == [m \in Managers |-> IF m = Root THEN None ELSE "x"]

\* The handlers of the program.  h1..h3 are registered on the root when it is
\* constructed; d1..d3 are added and removed while the program runs.
StaticHandlers == {"h1", "h2", "h3", "h4", "hc"}
DynamicHandlers == {"d1", "d2", "d3"}
\* the handler of the fallback generator that tick registers
Fallback == "fb"
\* the handler of a component that events are targeted at
TargetHandlers == {"d4"}
\* two handlers of the events that ask for Success, neither a filter
SuccessHandlers == {"s1", "s2"}

\* The channels callEvent is given.  callEvent passes event.channels to
\* waitEvent as one argument, so the one channel waitEvent registers its two
\* handlers with is the tuple of channels itself.
CallChannels == {<<"*">>, <<"x">>}
TupleChannel(chs) == IF chs = <<"*">> THEN "('*',)" ELSE "('x',)"

\* waitEvent's handlers _on_event and _on_done, for each such tuple
OnEvent(chs) == IF chs = <<"*">> THEN "on_event_all" ELSE "on_event_x"
OnDone(chs) == IF chs = <<"*">> THEN "on_done_all" ELSE "on_done_x"
OnEventHandlers == {OnEvent(chs) : chs \in CallChannels}
OnDoneHandlers == {OnDone(chs) : chs \in CallChannels}

Handlers ==
    StaticHandlers \cup DynamicHandlers \cup {Fallback} \cup TargetHandlers
        \cup OnEventHandlers \cup OnDoneHandlers \cup SuccessHandlers

\* handler metadata: names, channel, priority, filter, and the manager the
\* method is bound to (handler.__self__)
HandlerDef ==
    [h \in Handlers |->
       CASE h = "h1" -> [names |-> <<"a">>, channel |-> "*", priority |-> 1,
                         filter |-> TRUE, owner |-> Root]
         [] h = "h2" -> [names |-> <<"a", "b", "c">>, channel |-> "*", priority |-> 0,
                         filter |-> FALSE, owner |-> Root]
         [] h = "h3" -> [names |-> <<"b">>, channel |-> "*", priority |-> 0,
                         filter |-> FALSE, owner |-> Root]
         [] h = "h4" -> [names |-> <<"started">>, channel |-> "*",
                         priority |-> 0, filter |-> FALSE, owner |-> Root]
         [] h = "d1" -> [names |-> <<"p", "q">>, channel |-> "x", priority |-> 0,
                         filter |-> FALSE, owner |-> Root]
         [] h = "d2" -> [names |-> <<"p">>, channel |-> None, priority |-> 0,
                         filter |-> TRUE, owner |-> Child]
         [] h = "d3" -> [names |-> <<>>, channel |-> "*", priority |-> 1,
                         filter |-> FALSE, owner |-> Child]
         [] h = "d4" -> [names |-> <<"a">>, channel |-> None, priority |-> 0,
                         filter |-> FALSE, owner |-> Child]
         [] h = "hc" -> [names |-> <<"k">>, channel |-> "*", priority |-> 0,
                         filter |-> FALSE, owner |-> Root]
         [] h = "s1" -> [names |-> <<"s", "u">>, channel |-> "*",
                         priority |-> 1, filter |-> FALSE, owner |-> Root]
         [] h = "s2" -> [names |-> <<"s", "u">>, channel |-> "*",
                         priority |-> 0, filter |-> FALSE, owner |-> Root]
         [] h \in OnEventHandlers ->
                        [names |-> <<"b">>,
                         channel |-> TupleChannel(CHOOSE chs \in CallChannels :
                                                     OnEvent(chs) = h),
                         priority |-> 0, filter |-> FALSE, owner |-> Root]
         [] h \in OnDoneHandlers ->
                        [names |-> <<"b_done">>,
                         channel |-> TupleChannel(CHOOSE chs \in CallChannels :
                                                     OnDone(chs) = h),
                         priority |-> 0, filter |-> FALSE, owner |-> Root]
         [] h = "fb" -> [names |-> <<"generate_events">>, channel |-> "*",
                         priority |-> -100, filter |-> TRUE, owner |-> Root]]

----------------------------------------------------------------------------
(* Handler resolution                                                      *)

\* self._handlers.get(name, set())
Bucket(m, name) ==
    IF name \in DOMAIN handlers[m] THEN handlers[m][name] ELSE {}

\* the effective channel of a handler (getHandlers, the loop body)
HandlerChannel(h) ==
    IF HandlerDef[h].channel # None THEN HandlerDef[h].channel
    ELSE MgrChannel[HandlerDef[h].owner]

\* the handlers of self, whatever the channel is
getHandlersOfSelf(self, name, channel) ==
    Bucket(self, "*") \cup Bucket(self, name) \cup globals[self]

RECURSIVE getHandlers(_, _, _)
getHandlers(self, name, channel) ==
    IF channel \in Managers /\ channel # self
    THEN getHandlers(channel, name, channel)
    ELSE LET chain == Bucket(self, "*") \cup Bucket(self, name)
             matched == {h \in chain :
                            \/ channel = "*"
                            \/ HandlerChannel(h) \in {"*", channel}
                            \/ channel \in Managers}
             own == matched \cup globals[self]
         IN  IF channel \in Managers THEN own
             ELSE own \cup UNION {getHandlers(c, name, channel) :
                                     c \in components[self]}

\* _sortkey: (priority, filter); True sorts above False
_sortkey(h) ==
    <<HandlerDef[h].priority, IF HandlerDef[h].filter THEN 1 ELSE 0>>

\* tuple comparison k1 > k2
KeyGreater(k1, k2) ==
    \/ k1[1] > k2[1]
    \/ k1[1] = k2[1] /\ k1[2] > k2[2]

\* every order in which a set can be iterated
RECURSIVE Enumerations(_)
Enumerations(S) ==
    IF S = {} THEN {<<>>}
    ELSE UNION {{<<x>> \o t : t \in Enumerations(S \ {x})} : x \in S}

\* insertion of x behind every element whose key is not smaller (stable,
\* reverse=True keeps the input order of equal keys)
RECURSIVE InsertSorted(_, _)
InsertSorted(x, s) ==
    IF s = <<>> THEN <<x>>
    ELSE IF KeyGreater(_sortkey(x), _sortkey(Head(s)))
         THEN <<x>> \o s
         ELSE <<Head(s)>> \o InsertSorted(x, Tail(s))

\* the chain as it comes, not sorted
Unsorted(s) == s

RECURSIVE SortedDesc(_)
SortedDesc(s) ==
    IF s = <<>> THEN <<>>
    ELSE InsertSorted(s[Len(s)], SortedDesc(SubSeq(s, 1, Len(s) - 1)))

\* chain(*h): the handler sets of the channels, one after the other, each in
\* some iteration order
RECURSIVE Chains(_, _, _)
Chains(self, name, channels) ==
    IF channels = <<>> THEN {<<>>}
    ELSE {a \o b : a \in Enumerations(getHandlers(self, name, Head(channels))),
                   b \in Chains(self, name, Tail(channels))}

\* the lists sorted(chain(*h), key=_sortkey, reverse=True) can return
ResolveHandlers(self, name, channels) ==
    {SortedDesc(c) : c \in Chains(self, name, channels)}

----------------------------------------------------------------------------
(* Events                                                                  *)

\* The event classes of the program; the flags are class attributes.
ClassFlags(name) ==
    CASE name = "a" -> [complete |-> FALSE, success |-> TRUE,
                        failure |-> TRUE, alert_done |-> FALSE,
                        success_channels |-> <<>>]
      [] name = "c" -> [complete |-> TRUE, success |-> FALSE,
                        failure |-> FALSE, alert_done |-> FALSE,
                        success_channels |-> <<>>]
      [] name = "s" -> [complete |-> FALSE, success |-> TRUE,
                        failure |-> FALSE, alert_done |-> FALSE,
                        success_channels |-> <<"y">>]
      [] name = "u" -> [complete |-> FALSE, success |-> TRUE,
                        failure |-> FALSE, alert_done |-> FALSE,
                        success_channels |-> <<>>]
      [] OTHER -> [complete |-> FALSE, success |-> FALSE, failure |-> FALSE,
                   alert_done |-> FALSE, success_channels |-> <<>>]

NoFlags ==
    [complete |-> FALSE, success |-> FALSE, failure |-> FALSE,
     alert_done |-> FALSE, success_channels |-> <<>>]

\* the name of the class DerivedEvent.create(topic, event) makes
DerivedName(name, topic) ==
    CASE topic = "done" ->
           (CASE name = "a" -> "a_done" [] name = "b" -> "b_done"
              [] name = "c" -> "c_done" [] OTHER -> "done")
      [] topic = "success" ->
           (CASE name = "a" -> "a_success" [] name = "b" -> "b_success"
              [] name = "c" -> "c_success" [] OTHER -> "success")
      [] topic = "failure" ->
           (CASE name = "a" -> "a_failure" [] name = "b" -> "b_failure"
              [] name = "c" -> "c_failure" [] OTHER -> "failure")
      [] topic = "complete" ->
           (CASE name = "a" -> "a_complete" [] name = "b" -> "b_complete"
              [] name = "c" -> "c_complete" [] OTHER -> "complete")

\* An event object.  cause = 0 and effects = 0 stand for the attribute being
\* absent, and so does success_channels = <<>>; errors, value, promise,
\* informed are the fields of event.value;
\* time_left is the wait a GenerateEvents token allows (-1: no limit).
\* kind, src, by, at, st, hl, outs, nfl, fl, doneRuns are history: the class
\* of a derived event and the event it is about (for an event a handler or a
\* task fired: the event being handled), the code that fired it, the manager
\* whose fire was called, whether it was dispatched, the handler list and
\* the outcomes of the handlers invoked, the flush count when it was queued,
\* the flush that dispatched it, and how often _eventDone went past its
\* waitingHandlers test.
NewEvent(name, kind, src, by, channels, flags) ==
    [name |-> name, channels |-> channels,
     complete |-> flags.complete, success |-> flags.success,
     failure |-> flags.failure, alert_done |-> flags.alert_done,
     success_channels |-> flags.success_channels,
     waitingHandlers |-> 0, cause |-> 0, effects |-> 0, handler |-> None,
     errors |-> FALSE, value |-> "none", promise |-> FALSE,
     informed |-> FALSE, time_left |-> 0,
     kind |-> kind, src |-> src, by |-> by, at |-> None, st |-> "queued",
     hl |-> <<>>, outs |-> <<>>, nfl |-> 0, fl |-> 0, doneRuns |-> 0]

\* the mutable objects an operation works on
Heap ==
    [ev |-> ev, gens |-> gens, queue |-> queue, tasks |-> tasks,
     handling |-> handling, exthread |-> exthread, cache |-> cache]

Commit(s) ==
    /\ ev' = s.ev
    /\ gens' = s.gens
    /\ queue' = s.queue
    /\ tasks' = s.tasks
    /\ handling' = s.handling
    /\ exthread' = s.exthread
    /\ cache' = s.cache

\* a queue that grows at its head: deque.appendleft
EnqueueLeft(q, id) == <<id>> \o q

\* self._queue.append((event, channel))
Enqueue(q, id) == Append(q, id)

\* Manager._fire, run on root r by thread th
_fire(s, r, e, th) ==
    LET id == Len(s.ev) + 1
        e1 == [e EXCEPT !.nfl = nflush]
    IN  IF th = s.exthread /\ e.kind # "signal"
        THEN IF s.handling # 0 /\ s.ev[s.handling].cause # 0
             THEN [s EXCEPT
                     !.ev = Append([@ EXCEPT ![s.handling].effects = @ + 1],
                                   [e1 EXCEPT !.cause = s.handling,
                                              !.effects = 1]),
                     !.queue[r] = Enqueue(@, id)]
             ELSE [s EXCEPT !.ev = Append(@, e1),
                            !.queue[r] = Enqueue(@, id)]
        ELSE \* under self._lock; no GenerateEvents token to shorten here
             [s EXCEPT !.ev = Append(@, e1), !.queue[r] = Enqueue(@, id)]

\* the channels fireEvent uses when it is given none
DefaultChannels(self, e) ==
    IF e.channels # <<>> THEN e.channels
    ELSE IF MgrChannel[self] # None THEN <<MgrChannel[self]>> ELSE <<"*">>

\* Manager.fireEvent(event, *channels) on manager self, by thread th
fireEvent(s, self, e, channels, th) ==
    LET chs == IF channels # <<>> THEN channels ELSE DefaultChannels(self, e)
    IN  _fire(s, rootOf[self], [e EXCEPT !.channels = chs, !.at = self], th)

\* the walk up the cause chain at the end of _eventDone
RECURSIVE CauseWalk(_, _)
CauseWalk(s, e) ==
    IF s.ev[e].cause = 0 THEN s
    ELSE LET cause == s.ev[e].cause
             s1 == [s EXCEPT !.ev[e].effects = @ - 1]
         IN  IF s1.ev[e].effects > 0 THEN s1
             ELSE LET s2 == IF s1.ev[e].complete
                            THEN fireEvent(s1, Root,
                                   NewEvent(DerivedName(s1.ev[e].name, "complete"),
                                            "complete", e, "done", <<>>, NoFlags),
                                   s1.ev[e].channels, DrainThread)
                            ELSE s1
                      s3 == [s2 EXCEPT !.ev[e].cause = 0, !.ev[e].effects = 0]
                  IN  CauseWalk(s3, cause)

\* the test _eventDone starts with: tasks of the event are still live
StillWaiting(e) == e.waitingHandlers # 0

\* Manager._eventDone(event, error)
_eventDone(s, e, error) ==
    IF StillWaiting(s.ev[e]) THEN s
    ELSE LET s0 == [s EXCEPT !.ev[e].doneRuns = @ + 1]
             s1 == IF s0.ev[e].alert_done
                   THEN fireEvent(s0, Root,
                          NewEvent(DerivedName(s0.ev[e].name, "done"),
                                   "done", e, "done", <<>>, NoFlags),
                          s0.ev[e].channels, DrainThread)
                   ELSE s0
             s2 == IF ~error /\ s1.ev[e].success
                   THEN fireEvent(s1, Root,
                          NewEvent(DerivedName(s1.ev[e].name, "success"),
                                   "success", e, "done", <<>>, NoFlags),
                          IF s1.ev[e].success_channels # <<>>
                          THEN s1.ev[e].success_channels
                          ELSE s1.ev[e].channels,
                          DrainThread)
                   ELSE s1
         IN  CauseWalk(s2, e)

----------------------------------------------------------------------------
(* The call stack of DrainThread                                           *)

\* A frame is one running call of _flush (op "flush") or tick (op "tick").
\*   flush: q is the part of the snapshot not yet dispatched; at pc "loop"
\*          the for loop is between two events, at pc "handler" the handler
\*          Head(hs) of event cur is running; error is the dispatcher's
\*          local `error`; setex is set_executing; id numbers the flush; mut
\*          says that the deque the loop iterates was appended to since.
\*   tick:  todo is the part of self._tasks.copy() not yet processed, rec the
\*          arguments of a recursive processTask call about to run; at pc
\*          "tasks" the task loop runs, at pc "end" self.flush() was called.
Frame(op, pc, q, setex, id, todo) ==
    [op |-> op, pc |-> pc, q |-> q, cur |-> 0, hs |-> <<>>, error |-> FALSE,
     setex |-> setex, id |-> id, todo |-> todo, rec |-> <<>>, mut |-> FALSE]

Range(s) == {s[i] : i \in DOMAIN s}

Top == stack[Len(stack)]
InFrame(op, pc) == stack # <<>> /\ Top.op = op /\ Top.pc = pc
SetTop(f) == [stack EXCEPT ![Len(stack)] = f]
Pop == SubSeq(stack, 1, Len(stack) - 1)

\* a flush that leaves the queue object in place
SameQueue(q) == q

\* the new self._queue of _flush: q = self._queue; self._queue = deque()
FreshQueue(q) == <<>>

\* Manager._flush up to its for loop, on the root
FlushStart(s) ==
    LET setex == s.exthread = None
    IN  [heap |-> [s EXCEPT !.exthread = IF setex THEN DrainThread ELSE @,
                            !.queue[Root] = FreshQueue(@)],
         frame |-> Frame("flush", "loop", s.queue[Root], setex, nflush + 1, {})]

\* the handler list of the dispatcher: the cached one, or a fresh one that is
\* then cached
LookupHandlers(s, name, channels) ==
    IF <<name, channels>> \in DOMAIN s.cache[Root]
    THEN {s.cache[Root][<<name, channels>>]}
    ELSE ResolveHandlers(Root, name, channels)

CachePut(c, key, hs) ==
    [k \in DOMAIN c \cup {key} |-> IF k = key THEN hs ELSE c[k]]

\* the end of _dispatcher: clear _currently_handling, call _eventDone
DispatchEnd(s, e, error) ==
    LET s1 == [s EXCEPT !.handling = 0, !.ev[e].st = "dispatched"]
    IN  _eventDone(s1, e, error)

Truthy(value) == value \in {"value", "error", "gen"}

\* a loop that never breaks
NoBreak(value, h) == FALSE

\* `if value and handler.filter: break`
FilterBreak(value, h) == Truthy(value) /\ HandlerDef[h].filter

\* an except clause that records the error and fires nothing
HandlerFailedQuietly(s, e) == [s EXCEPT !.ev[e].errors = TRUE]

\* the except clause of the dispatcher's loop
HandlerFailed(s, e) ==
    LET s1 == [s EXCEPT !.ev[e].errors = TRUE]
        s2 == IF s1.ev[e].failure
              THEN fireEvent(s1, Root,
                     NewEvent(DerivedName(s1.ev[e].name, "failure"),
                              "failure", e, "dispatch", <<>>, NoFlags),
                     s1.ev[e].channels, DrainThread)
              ELSE s1
    IN  fireEvent(s2, Root,
                  NewEvent("error", "error", e, "dispatch", <<>>, NoFlags),
                  <<>>, DrainThread)

\* what the dispatcher does with the value a handler call produced; "error" is
\* the (etype, evalue, traceback) tuple of a handler that raised
HandlerResult(s, e, value) ==
    LET s1 == IF value = "error" THEN HandlerFailed(s, e) ELSE s
    IN  IF value = "gen"
        THEN LET g == Len(s1.gens) + 1
             IN  [s1 EXCEPT !.ev[e].waitingHandlers = @ + 1,
                            !.ev[e].promise = TRUE,
                            !.gens = Append(@, [done |-> FALSE]),
                            !.tasks = @ \cup {<<e, g>>}]
        ELSE IF value # "none"
             THEN [s1 EXCEPT !.ev[e].value = value]
             ELSE s1

----------------------------------------------------------------------------
(* The task runner                                                         *)

registerTask(s, t) == [s EXCEPT !.tasks = @ \cup {t}]

unregisterTask(s, t) == [s EXCEPT !.tasks = @ \ {t}]

\* processTask, the `except StopIteration` clause
TaskExhausted(s, e, g, parent) ==
    LET s1 == [s EXCEPT !.ev[e].waitingHandlers = @ - 1]
    IN  IF parent # 0
        THEN registerTask(unregisterTask(s1, <<e, g, parent>>), <<e, parent>>)
        ELSE LET s2 == unregisterTask(s1, <<e, g>>)
             IN  IF s2.ev[e].waitingHandlers = 0
                 THEN _eventDone([s2 EXCEPT !.ev[e].informed = TRUE], e, FALSE)
                 ELSE s2

\* processTask, the bare `except` clause; value is the local `value`
TaskFailed(s, e, g, value) ==
    LET s1 == unregisterTask(s, <<e, g>>)
        s2 == [s1 EXCEPT !.ev[e].value = value, !.ev[e].errors = TRUE,
                         !.ev[e].informed = TRUE]
        s3 == IF s2.ev[e].failure
              THEN fireEvent(s2, Root,
                     NewEvent(DerivedName(s2.ev[e].name, "failure"),
                              "failure", e, "task", <<>>, NoFlags),
                     s2.ev[e].channels, DrainThread)
              ELSE s2
    IN  fireEvent(s3, Root,
                  NewEvent("error", "error", e, "task", <<>>, NoFlags),
                  <<>>, DrainThread)

NewGen(s) == [s EXCEPT !.gens = Append(@, [done |-> FALSE])]
Finished(s, g) == [s EXCEPT !.gens[g].done = TRUE]

\* One call processTask(event, task, parent), up to a recursive call.  `step`
\* is what task.next() does: "none" / "value" (it yields None / a value),
\* "gen" (it yields a new generator), "callvalue" (it yields a CallValue),
\* "stop" (StopIteration), "raise".  `sent` is what parent.send() does after
\* a CallValue.  The result is the heap and the recursive call to make.
processTask(s, e, g, parent, step, sent) ==
    CASE step = "stop" ->
           [heap |-> TaskExhausted(Finished(s, g), e, g, parent), rec |-> <<>>]
      [] step = "raise" ->
           [heap |-> TaskFailed(Finished(s, g), e, g, "none"), rec |-> <<>>]
      [] step = "none" ->
           [heap |-> s, rec |-> <<>>]
      [] step = "value" ->
           [heap |-> [s EXCEPT !.ev[e].value = "value"], rec |-> <<>>]
      [] step = "gen" ->
           LET n == Len(s.gens) + 1
               s1 == [NewGen(s) EXCEPT !.ev[e].waitingHandlers = @ + 1]
           IN  [heap |-> unregisterTask(registerTask(s1, <<e, n, g>>), <<e, g>>),
                rec |-> <<e, n, g>>]
      [] step = "callvalue" ->
           IF parent = 0
           THEN \* no tuple (event, task, None) is registered, and None has
                \* no send: AttributeError
                [heap |-> TaskFailed(s, e, g, "callvalue"), rec |-> <<>>]
           ELSE LET s1 == unregisterTask(s, <<e, g, parent>>)
                IN  CASE sent = "gen" ->
                           LET n == Len(s1.gens) + 1
                           IN  [heap |-> registerTask(NewGen(s1), <<e, n, parent>>),
                                rec |-> <<e, n, parent>>]
                      [] sent = "none" ->
                           [heap |-> registerTask(
                                       [s1 EXCEPT !.ev[e].waitingHandlers = @ - 1],
                                       <<e, parent>>),
                            rec |-> <<>>]
                      [] sent = "value" ->
                           [heap |-> registerTask(
                                       [s1 EXCEPT !.ev[e].waitingHandlers = @ - 1,
                                                  !.ev[e].value = "value"],
                                       <<e, parent>>),
                            rec |-> <<>>]
                      [] sent = "stop" ->
                           [heap |-> TaskExhausted(Finished(s1, parent), e, g, parent),
                            rec |-> <<>>]
                      [] sent = "raise" ->
                           [heap |-> TaskFailed(Finished(s1, parent), e, g, "callvalue"),
                            rec |-> <<>>]

\* what a generator can do when it is resumed: a finished one only raises
\* StopIteration
Steps(s, g) ==
    IF s.gens[g].done THEN {"stop"}
    ELSE {"none", "value", "gen", "callvalue", "stop", "raise"}

Sends(s, step, parent) ==
    IF step # "callvalue" \/ parent = 0 THEN {"none"}
    ELSE IF s.gens[parent].done THEN {"stop"}
    ELSE {"none", "value", "gen", "stop", "raise"}

\* the number of generator objects a step creates
GensMade(step, sent) ==
    IF step = "gen" \/ (step = "callvalue" /\ sent = "gen") THEN 1 ELSE 0

----------------------------------------------------------------------------
(* The handler registry and the manager tree                               *)

Registry ==
    [globals |-> globals, handlers |-> handlers, cache |-> cache]

\* self._handlers.setdefault(name, set()).add(method)
BucketAdd(b, name, h) ==
    [k \in DOMAIN b \cup {name} |->
        IF k = name THEN (IF name \in DOMAIN b THEN b[name] ELSE {}) \cup {h}
        ELSE b[k]]

RECURSIVE AddToBuckets(_, _, _)
AddToBuckets(b, names, h) ==
    IF names = <<>> THEN b
    ELSE AddToBuckets(BucketAdd(b, Head(names), h), Tail(names), h)

EmptyCache == [k \in {} |-> <<>>]

\* self.root._cache.clear()
ClearCache(c, self) == [c EXCEPT ![rootOf[self]] = EmptyCache]

\* Manager.addHandler(f) on manager self
addHandler(r, self, h) ==
    LET d == HandlerDef[h]
        r1 == IF d.names = <<>> /\ d.channel = "*"
              THEN [r EXCEPT !.globals[self] = @ \cup {h}]
              ELSE IF d.names = <<>>
                   THEN [r EXCEPT !.handlers[self] = BucketAdd(@, "*", h)]
                   ELSE [r EXCEPT !.handlers[self] = AddToBuckets(@, d.names, h)]
    IN  [r1 EXCEPT !.cache = ClearCache(@, self)]

\* the body of removeHandler's loop for one name; the bucket holds h
BucketRemove(b, name, h) ==
    IF b[name] = {h}
    THEN [k \in DOMAIN b \ {name} |-> b[k]]
    ELSE [b EXCEPT ![name] = @ \ {h}]

\* removeHandler's loop: the buckets after it, and whether it ran to its end
\* (self._handlers[name].remove(method) raises KeyError when the bucket or
\* the method is missing, and the calls before it have taken effect)
RECURSIVE RemoveFromBuckets(_, _, _)
RemoveFromBuckets(b, names, h) ==
    IF names = <<>> THEN [buckets |-> b, ok |-> TRUE]
    ELSE IF Head(names) \in DOMAIN b /\ h \in b[Head(names)]
         THEN RemoveFromBuckets(BucketRemove(b, Head(names), h), Tail(names), h)
         ELSE [buckets |-> b, ok |-> FALSE]

\* Manager.removeHandler(f, event) on manager self; event = None: every name
removeHandler(r, self, h, event) ==
    LET names == IF event = None THEN HandlerDef[h].names ELSE <<event>>
        res == RemoveFromBuckets(r.handlers[self], names, h)
        r1 == [r EXCEPT !.handlers[self] = res.buckets]
    IN  IF res.ok THEN [r1 EXCEPT !.cache = ClearCache(@, self)] ELSE r1

\* removeHandler(f, event) on manager self ends with a KeyError
removeHandlerRaises(r, self, h, event) ==
    LET names == IF event = None THEN HandlerDef[h].names ELSE <<event>>
    IN  ~RemoveFromBuckets(r.handlers[self], names, h).ok

----------------------------------------------------------------------------
(* What the handlers of the program do                                     *)

\* the values a call of handler h can produce: None, a falsy value, a truthy
\* value, a generator, or the error tuple of a handler that raised
Behaviours(h) ==
    CASE h = "h1" -> {"none", "falsy", "value", "gen", "error"}
      [] h = "h2" -> {"none", "gen", "error"}
      [] h = Fallback -> {}
      [] h = "d4" -> {"none", "value", "error"}
      [] h = "hc" -> {"gen"}
      [] h \in SuccessHandlers -> {"none", "value", "gen", "error"}
      [] h \in OnEventHandlers \cup OnDoneHandlers -> {}
      [] OTHER -> {"none", "value"}

\* the handlers whose code fires events, and calls flush()
Firing == {"h2", "h4"}

UserChannels == {<<"x">>}

----------------------------------------------------------------------------
(* Actions: calls made from outside any handler                            *)

\* manager m .fire(event, *channels) from the main program
FireMain(m, name, channels) ==
    /\ stack = <<>>
    /\ Len(ev) < MaxEvents
    /\ Commit(fireEvent(Heap, m,
                        NewEvent(name, "user", 0, "main", <<>>, ClassFlags(name)),
                        channels, DrainThread))
    /\ UNCHANGED <<runvars, regvars, stack, nflush>>

\* flush() from the main program (a flush of an empty queue changes nothing)
FlushCall ==
    /\ stack = <<>>
    /\ queue[Root] # <<>>
    /\ LET r == FlushStart(Heap)
       IN  /\ Commit(r.heap)
           /\ stack' = <<r.frame>>
    /\ nflush' = nflush + 1
    /\ UNCHANGED <<regvars, runvars>>

\* tick() from the main program, up to its task loop (the manager is not
\* running and has no tick functions)
TickCall ==
    /\ stack = <<>>
    /\ tasks # {} \/ queue[Root] # <<>>
    /\ exthread' = DrainThread
    /\ stack' = <<Frame("tick", "tasks", <<>>, FALSE, 0, tasks)>>
    /\ UNCHANGED <<runvars, regvars, cache, queue, ev, gens, tasks, handling, nflush>>

----------------------------------------------------------------------------
(* Actions: _flush and _dispatcher                                         *)

\* One turn of _flush's for loop: _dispatcher up to the call of the first
\* handler, or to its end when the event has no handler.
Dispatch ==
    /\ InFrame("flush", "loop")
    /\ ~Top.mut
    /\ Top.q # <<>>
    /\ LET e == Head(Top.q)
           key == <<ev[e].name, ev[e].channels>>
       IN  \E hs \in LookupHandlers(Heap, key[1], key[2]) :
             LET s1 == [Heap EXCEPT
                          !.handling = e,
                          !.ev[e] = [(IF @.complete
                                      THEN [@ EXCEPT
                                              !.cause = IF @ = 0 THEN e ELSE @,
                                              !.effects = 1]
                                      ELSE @)
                                     EXCEPT !.st = "handling", !.fl = Top.id,
                                            !.hl = hs],
                          !.cache[Root] = CachePut(@, key, hs)]
                 s2 == IF hs = <<>> THEN DispatchEnd(s1, e, FALSE)
                       ELSE [s1 EXCEPT !.ev[e].handler = Head(hs)]
             IN  /\ Len(s2.ev) <= MaxEvents \/ Len(s2.ev) = Len(ev)
                 /\ Commit(s2)
                 /\ stack' = SetTop(IF hs = <<>>
                                    THEN [Top EXCEPT !.q = Tail(@)]
                                    ELSE [Top EXCEPT !.q = Tail(@),
                                                     !.pc = "handler",
                                                     !.cur = e, !.hs = hs,
                                                     !.error = FALSE])
    /\ UNCHANGED <<runvars, regvars, nflush>>

\* the running handler fires an event
HandlerFire(name, channels) ==
    /\ InFrame("flush", "handler")
    /\ Head(Top.hs) \in Firing
    /\ Len(ev) < MaxEvents
    /\ Commit(fireEvent(Heap, HandlerDef[Head(Top.hs)].owner,
                        NewEvent(name, "user", Top.cur, "handler", <<>>,
                                 ClassFlags(name)),
                        channels, DrainThread))
    /\ UNCHANGED <<runvars, regvars, stack, nflush>>

\* the running handler calls flush()
HandlerFlush ==
    /\ InFrame("flush", "handler")
    /\ Head(Top.hs) \in Firing
    /\ Len(stack) < MaxDepth
    /\ queue[Root] # <<>>
    /\ LET r == FlushStart(Heap)
       IN  /\ Commit(r.heap)
           /\ stack' = Append(stack, r.frame)
    /\ nflush' = nflush + 1
    /\ UNCHANGED <<regvars, runvars>>

\* The running handler returns `value` (or raises: "error"); the dispatcher
\* goes on to the call of the next handler, or to its end.  HandlerReturn is
\* the return of a handler of the program.
ReturnStep(s, value) ==
    /\ InFrame("flush", "handler")
    /\ value = "gen" => Len(gens) < MaxGens
    /\ LET e == Top.cur
           h == Head(Top.hs)
           error == Top.error \/ value = "error"
           s1 == HandlerResult([s EXCEPT !.ev[e].outs = Append(@, value)],
                               e, value)
           last == FilterBreak(value, h) \/ Tail(Top.hs) = <<>>
           s2 == IF last THEN DispatchEnd(s1, e, error)
                 ELSE [s1 EXCEPT !.ev[e].handler = Head(Tail(Top.hs))]
       IN  /\ Len(s2.ev) <= MaxEvents \/ Len(s2.ev) = Len(ev)
           /\ Commit(s2)
           /\ stack' = SetTop(IF last
                              THEN [Top EXCEPT !.pc = "loop", !.cur = 0,
                                               !.hs = <<>>, !.error = FALSE]
                              ELSE [Top EXCEPT !.hs = Tail(@),
                                               !.error = error])

Returns(value) ==
    /\ ReturnStep(Heap, value)
    /\ UNCHANGED <<runvars, regvars, nflush>>

HandlerReturn(value) ==
    /\ InFrame("flush", "handler")
    /\ value \in Behaviours(Head(Top.hs))
    /\ Returns(value)

\* the end of _flush
FlushEnd ==
    /\ InFrame("flush", "loop")
    /\ ~Top.mut
    /\ Top.q = <<>>
    /\ exthread' = IF Top.setex THEN None ELSE exthread
    /\ stack' = Pop
    /\ UNCHANGED <<runvars, regvars, cache, queue, ev, gens, tasks, handling, nflush>>

----------------------------------------------------------------------------
(* Actions: tick                                                           *)

\* One call of processTask: for the next task of the snapshot, or the
\* recursive call the last one ended with.  The resumed generator may fire
\* an event before it yields.
ProcessTask(t, fire, step, sent) ==
    /\ InFrame("tick", "tasks")
    /\ IF Top.rec # <<>> THEN t = Top.rec ELSE t \in Top.todo
    /\ LET e == t[1]
           g == t[2]
           parent == IF Len(t) = 3 THEN t[3] ELSE 0
           s0 == IF fire = <<>> \/ gens[g].done THEN Heap
                 ELSE fireEvent(Heap, Root,
                                NewEvent(fire[1], "user", e, "gen", <<>>,
                                         ClassFlags(fire[1])),
                                fire[2], DrainThread)
       IN  /\ step \in Steps(Heap, g)
           /\ sent \in Sends(Heap, step, parent)
           /\ fire # <<>> => ~gens[g].done /\ Len(ev) < MaxEvents
           /\ Len(gens) + GensMade(step, sent) <= MaxGens
           /\ LET r == processTask(s0, e, g, parent, step, sent)
              IN  /\ Len(r.heap.ev) <= MaxEvents
                     \/ Len(r.heap.ev) = Len(ev)
                  /\ Commit(r.heap)
                  /\ stack' = SetTop([Top EXCEPT !.todo = @ \ {t},
                                                 !.rec = r.rec])
    /\ UNCHANGED <<runvars, regvars, nflush>>

\* tick is past its task loop and past `if self._running` and its block
AtFlush ==
    /\ stack # <<>> /\ Top.op = "tick"
    /\ Top.pc = "flush" \/ (Top.pc = "tasks" /\ ~running)
    /\ Top.todo = {} /\ Top.rec = <<>>

\* tick after its task loop: `if self: self.flush()`
TickFlush ==
    /\ AtFlush
    /\ queue[Root] # <<>>
    /\ LET r == FlushStart(Heap)
       IN  /\ Commit(r.heap)
           /\ stack' = Append(SetTop([Top EXCEPT !.pc = "end"]), r.frame)
    /\ nflush' = nflush + 1
    /\ UNCHANGED <<regvars, runvars>>

\* the end of tick
TickEnd ==
    /\ stack # <<>> /\ Top.op = "tick"
    /\ IF Top.pc = "end" THEN TRUE
       ELSE AtFlush /\ queue[Root] = <<>>
    /\ exthread' = None
    /\ stack' = Pop
    /\ UNCHANGED <<runvars, regvars, cache, queue, ev, gens, tasks, handling, nflush>>

----------------------------------------------------------------------------
(* The dispatch core: a root with its handlers registered                  *)

RECURSIVE AddAll(_, _)
AddAll(r, hs) ==
    IF hs = {} THEN r
    ELSE LET h == CHOOSE x \in hs : TRUE
         IN  AddAll(addHandler(r, HandlerDef[h].owner, h), hs \ {h})

NoRegistry ==
    [globals |-> [m \in Managers |-> {}],
     handlers |-> [m \in Managers |-> [k \in {} |-> {}]],
     cache |-> [m \in Managers |-> EmptyCache]]

InitRest ==
    /\ components = [m \in Managers |-> {}]
    /\ rootOf = [m \in Managers |-> m]
    /\ queue = [m \in Managers |-> <<>>]
    /\ ev = <<>>
    /\ gens = <<>>
    /\ tasks = {}
    /\ handling = 0
    /\ exthread = None
    /\ stack = <<>>
    /\ nflush = 0
    /\ running = FALSE
    /\ genev = 0
    /\ other = [pc |-> "idle", ref |-> 0, e |-> 0, n |-> 0]
    /\ call = [st |-> "idle", chans |-> <<>>, e |-> 0, run |-> FALSE,
               flag |-> FALSE, event |-> 0, got |-> "none"]

Init ==
    /\ InitRest
    /\ LET r == AddAll(NoRegistry, StaticHandlers)
       IN  /\ globals = r.globals
           /\ handlers = r.handlers
           /\ cache = r.cache

\* the events the dispatch core fires, and those the task runner fires
CoreNames == {"a", "b"}
TaskNames == {"a", "c"}

Fires ==
    {<<>>} \cup {<<n, c>> : n \in TaskNames, c \in UserChannels}

\* The dispatch core: fire and flush from the main program, handlers that
\* fire events, call flush() again, return anything or raise.  A generator a
\* handler returns is registered as a task; no tick resumes it here.
Next ==
    \/ \E n \in CoreNames, c \in UserChannels : FireMain(Root, n, c)
    \/ FlushCall
    \/ Dispatch
    \/ \E n \in CoreNames, c \in UserChannels : HandlerFire(n, c)
    \/ HandlerFlush
    \/ \E v \in {"none", "falsy", "value", "gen", "error"} : HandlerReturn(v)
    \/ FlushEnd

Spec == Init /\ [][Next]_vars

\* The task runner: the main program fires events and calls tick(); the
\* generators that handlers return are resumed by processTask.
NextTask ==
    \/ \E n \in TaskNames, c \in UserChannels : FireMain(Root, n, c)
    \/ TickCall
    \/ Dispatch
    \/ \E n \in TaskNames, c \in UserChannels : HandlerFire(n, c)
    \/ \E v \in {"none", "value", "gen", "error"} : HandlerReturn(v)
    \/ FlushEnd
    \/ \E t \in tasks \cup (IF stack # <<>> THEN {Top.rec} ELSE {}),
          f \in Fires,
          step \in {"none", "value", "gen", "callvalue", "stop", "raise"},
          sent \in {"none", "value", "gen", "stop", "raise"} :
          ProcessTask(t, f, step, sent)
    \/ TickFlush
    \/ TickEnd

SpecTask == Init /\ [][NextTask]_vars

\* Completion tracking: the main program fires events that ask for Complete
\* and calls flush(); their handlers fire events and call flush().
CauseNames == {"c"}
EffectNames == {"b", "c"}

NextCause ==
    \/ \E n \in CauseNames, c \in UserChannels : FireMain(Root, n, c)
    \/ FlushCall
    \/ Dispatch
    \/ \E n \in EffectNames, c \in UserChannels : HandlerFire(n, c)
    \/ HandlerFlush
    \/ HandlerReturn("none")
    \/ FlushEnd

SpecCause == Init /\ [][NextCause]_vars

----------------------------------------------------------------------------
(* The registry and the tree at work: handlers come and go, the child is   *)
(* registered and unregistered, between the flushes of the root            *)

Tree == [components |-> components, queue |-> queue, cache |-> cache]

\* a registerChild that clears the queue of the component without extending
\* the queue of the root
registerChildNoExtend(t, self, c) ==
    [t EXCEPT !.components[self] = @ \cup {c},
              !.queue[c] = <<>>,
              !.cache[rootOf[self]] = EmptyCache]

\* Manager.registerChild(component) on manager self
registerChild(t, self, c) ==
    LET r == rootOf[self]
    IN  [t EXCEPT !.components[self] = @ \cup {c},
                  !.queue = [@ EXCEPT ![r] = @ \o t.queue[c], ![c] = <<>>],
                  !.cache[r] = EmptyCache]

\* Manager.unregisterChild(component) on manager self
unregisterChild(t, self, c) ==
    [t EXCEPT !.components[self] = @ \ {c},
              !.cache[rootOf[self]] = EmptyCache]

\* the root back-reference of component c, set when it joins or leaves a tree
SetRoot(c, r) == [rootOf EXCEPT ![c] = r]

\* the events fired here, and the `event` arguments of removeHandler
RegNames == {"p"}
RemoveArgs == {"p", "q", None}

\* owner.addHandler(h) from the main program
AddHandler(h) ==
    /\ stack = <<>>
    /\ LET r == addHandler(Registry, HandlerDef[h].owner, h)
       IN  /\ globals' = r.globals
           /\ handlers' = r.handlers
           /\ cache' = r.cache
    /\ UNCHANGED <<runvars, components, rootOf, queue, ev, gens, tasks, handling,
                   exthread, stack, nflush>>

\* owner.removeHandler(h, event) from the main program; a KeyError is caught
\* there
RemoveHandler(h, event) ==
    /\ stack = <<>>
    /\ event = None \/ event \in Range(HandlerDef[h].names)
    /\ LET r == removeHandler(Registry, HandlerDef[h].owner, h, event)
       IN  /\ globals' = r.globals
           /\ handlers' = r.handlers
           /\ cache' = r.cache
    /\ UNCHANGED <<runvars, components, rootOf, queue, ev, gens, tasks, handling,
                   exthread, stack, nflush>>

\* Child.register(Root) from the main program
RegisterChild ==
    /\ stack = <<>>
    /\ Child \notin components[Root]
    /\ LET t == registerChild(Tree, Root, Child)
       IN  /\ components' = t.components
           /\ queue' = t.queue
           /\ cache' = t.cache
    /\ rootOf' = SetRoot(Child, rootOf[Root])
    /\ UNCHANGED <<runvars, globals, handlers, ev, gens, tasks, handling, exthread,
                   stack, nflush>>

\* Child.unregister() from the main program
UnregisterChild ==
    /\ stack = <<>>
    /\ Child \in components[Root]
    /\ LET t == unregisterChild(Tree, Root, Child)
       IN  /\ components' = t.components
           /\ queue' = t.queue
           /\ cache' = t.cache
    /\ rootOf' = SetRoot(Child, Child)
    /\ UNCHANGED <<runvars, globals, handlers, ev, gens, tasks, handling, exthread,
                   stack, nflush>>

\* The registry at work: events are fired on the root and on the child, and
\* dispatched to whatever handlers are registered at the time.  (A fire on
\* the child while it is registered goes to self.root, as a fire on the root
\* does; the child fires while it stands alone.)
NextReg ==
    \/ /\ Len(ev) < MaxRegEvents
       /\ \E n \in RegNames, c \in UserChannels : FireMain(Root, n, c)
    \/ /\ Len(ev) < MaxRegEvents
       /\ rootOf[Child] = Child
       /\ \E n \in RegNames, c \in UserChannels : FireMain(Child, n, c)
    \/ FlushCall
    \/ Dispatch
    \/ HandlerReturn("none")
    \/ FlushEnd
    \/ \E h \in DynamicHandlers : AddHandler(h)
    \/ \E h \in DynamicHandlers, n \in RemoveArgs : RemoveHandler(h, n)
    \/ RegisterChild
    \/ UnregisterChild

SpecReg == Init /\ [][NextReg]_vars

----------------------------------------------------------------------------
(* run, tick with its GenerateEvents token, stop, and a second thread       *)

\* GenerateEvents.reduce_time_left(t)
reduce_time_left(tl, t) == IF tl < 0 \/ tl > t THEN t ELSE tl

\* the second thread is inside `with self._lock` of _fire
LockHeld == other.pc = "locked"

\* self._generate_event.reduce_time_left(0), where the attribute exists
ReduceToken(s) ==
    IF genev = 0 THEN s
    ELSE [s EXCEPT !.ev[genev].time_left = reduce_time_left(@, 0)]

\* fireEvent and _fire by DrainThread for an event of the run loop: appended
\* directly on the executing thread (with the cause of the event being
\* handled), else under the lock, where a token is cut short
RunFire(s, e) ==
    LET s1 == fireEvent(s, Root, e, <<>>, DrainThread)
    IN  IF DrainThread = s.exthread /\ e.kind # "signal" THEN s1
        ELSE ReduceToken(s1)

RunEvent(name, kind, by) == NewEvent(name, kind, 0, by, <<>>, NoFlags)

\* a frame of tick
RunTickFrame == Frame("tick", "tasks", <<>>, FALSE, 0, tasks)

\* DrainThread is not inside an aborted flush and has not left run
Alive == stack # <<>> /\ Top.pc \notin {"crashed", "returned"}

\* run() up to its while loop
RunStart ==
    /\ stack = <<>>
    /\ ev = <<>>
    /\ ~running
    /\ Commit(fireEvent([Heap EXCEPT !.exthread = DrainThread], Root,
                        RunEvent("started", "started", "run"), <<>>,
                        DrainThread))
    /\ running' = TRUE
    /\ stack' = <<Frame("run", "loop", <<>>, FALSE, 0, {})>>
    /\ UNCHANGED <<regvars, call, nflush, genev, other>>

LoopConditionWithTasks == queue[Root] # <<>> \/ running \/ tasks # {}

\* `self or self.running`: bool(self) is len(self._queue) > 0
LoopCondition == queue[Root] # <<>> \/ running

\* `while self or self.running: self.tick()`, and the tick of `finally`
RunLoop ==
    /\ InFrame("run", "loop")
    /\ IF LoopCondition
       THEN /\ stack' = Append(stack, RunTickFrame)
            /\ exthread' = DrainThread
       ELSE /\ stack' = Append(SetTop([Top EXCEPT !.pc = "after"]),
                               RunTickFrame)
            /\ exthread' = DrainThread
    /\ UNCHANGED <<regvars, runvars, cache, queue, ev, gens, tasks, handling,
                   nflush>>

\* run() returns
RunReturn ==
    /\ InFrame("run", "after")
    /\ stack' = SetTop([Top EXCEPT !.pc = "returned"])
    /\ UNCHANGED <<regvars, runvars, cache, queue, ev, gens, tasks, handling,
                   exthread, nflush>>

\* tick after its task loop: `if self._running:`, taken (a tick that is
\* going to make a token starts only while events are left to create)
TickCheck ==
    /\ InFrame("tick", "tasks")
    /\ Top.todo = {} /\ Top.rec = <<>>
    /\ running
    /\ Len(ev) < MaxRunEvents
    /\ stack' = SetTop([Top EXCEPT !.pc = "token"])
    /\ UNCHANGED <<regvars, runvars, cache, queue, ev, gens, tasks, handling,
                   exthread, nflush>>

\* tick: the block under the lock that makes the GenerateEvents token
TickToken ==
    /\ InFrame("tick", "token")
    /\ ~LockHeld
    /\ LET tl == IF tasks # {} \/ queue[Root] # <<>>
                 THEN reduce_time_left(-1, 0) ELSE -1
           tok == [RunEvent("generate_events", "generate", "tick")
                     EXCEPT !.time_left = tl, !.st = "created"]
       IN  /\ ev' = Append(ev, tok)
           /\ genev' = Len(ev) + 1
    /\ stack' = SetTop([Top EXCEPT !.pc = "fire"])
    /\ UNCHANGED <<regvars, call, running, other, cache, queue, gens, tasks,
                   handling, exthread, nflush>>

\* tick: the fallback generator is registered if there is none, and the
\* token is fired on "*"
TickFire ==
    /\ InFrame("tick", "fire")
    /\ DrainThread # exthread => ~LockHeld
    /\ LET r == IF Fallback \in Bucket(Root, "generate_events")
                THEN Registry ELSE addHandler(Registry, Root, Fallback)
           s0 == [Heap EXCEPT !.cache = r.cache]
           s1 == [s0 EXCEPT !.ev[genev] = [@ EXCEPT !.st = "queued",
                                                    !.channels = <<"*">>,
                                                    !.at = Root,
                                                    !.nfl = nflush],
                            !.queue[Root] = Enqueue(@, genev)]
           cur == s1.handling
           s2 == IF DrainThread = exthread
                 THEN IF cur # 0 /\ s1.ev[cur].cause # 0
                      THEN [s1 EXCEPT !.ev[cur].effects = @ + 1,
                                      !.ev[genev].cause = cur,
                                      !.ev[genev].effects = 1]
                      ELSE s1
                 ELSE ReduceToken(s1)
       IN  /\ Commit(s2)
           /\ globals' = r.globals
           /\ handlers' = r.handlers
    /\ stack' = SetTop([Top EXCEPT !.pc = "flush"])
    /\ UNCHANGED <<components, rootOf, runvars, nflush>>

\* the handler of the fallback generator waits as long as the token has
\* time left, and returns
FallbackReturn ==
    /\ InFrame("flush", "handler")
    /\ Head(Top.hs) = Fallback
    /\ ev[Top.cur].time_left = 0
    /\ Returns("none")

\* the handlers that call stop()
Stopping == {"h3"}

\* stop(): the test of its loop over the old queue, `isinstance(evt,
\* GenerateEvents)`, for an entry of the queue, which is a tuple
\* (event, channels)
EntryIsGenerateEvents(e) == FALSE

\* stop(): the entries of the old queue that are put into the new one
StripQueue(q) == SelectSeq(q, LAMBDA e : ~EntryIsGenerateEvents(e))

\* stop() of a running manager up to its three ticks
stop(s) ==
    RunFire([s EXCEPT !.queue[Root] = StripQueue(@)],
            RunEvent("stopped", "stopped", "stop"))

StopFrameTwoTicks == Frame("stop", "ticks", <<>>, FALSE, 1, {})

\* the frame of stop: id counts the ticks it has called
StopFrame == Frame("stop", "ticks", <<>>, FALSE, 0, {})

\* _signalHandler on DrainThread, between two of its steps: Signal is fired
\* under the lock, then stop() is called
SignalStop ==
    /\ Alive
    /\ running
    /\ ~LockHeld
    /\ Len(ev) + 2 <= MaxRunEvents
    /\ Commit(stop(ReduceToken(fireEvent(Heap, Root,
                                         RunEvent("signal", "signal", "signal"),
                                         <<>>, DrainThread))))
    /\ running' = FALSE
    /\ nflush' = nflush + 1
    /\ stack' = Append(stack, StopFrame)
    /\ UNCHANGED <<regvars, call, genev, other>>

\* a running handler calls stop()
HandlerStop ==
    /\ InFrame("flush", "handler")
    /\ Head(Top.hs) \in Stopping
    /\ running
    /\ DrainThread # exthread => ~LockHeld
    /\ Len(ev) < MaxRunEvents
    /\ Commit(stop(Heap))
    /\ running' = FALSE
    /\ nflush' = nflush + 1
    /\ stack' = Append(stack, StopFrame)
    /\ UNCHANGED <<regvars, call, genev, other>>

\* stop(): `for _ in range(3): self.tick()`.  The frame of stop keeps, as
\* history, the number of queue swaps before each of its ticks.
StopTick ==
    /\ InFrame("stop", "ticks")
    /\ Top.id < 3
    /\ stack' = Append(SetTop([Top EXCEPT !.id = @ + 1,
                                          !.q = Append(@, nflush)]),
                       RunTickFrame)
    /\ exthread' = DrainThread
    /\ UNCHANGED <<regvars, runvars, cache, queue, ev, gens, tasks, handling,
                   nflush>>

\* stop() returns
StopEnd ==
    /\ InFrame("stop", "ticks")
    /\ Top.id = 3
    /\ stack' = Pop
    /\ UNCHANGED <<regvars, runvars, cache, queue, ev, gens, tasks, handling,
                   exthread, nflush>>

\* the running handler fires an event while the manager runs
RunHandlerFire(name, channels) ==
    /\ InFrame("flush", "handler")
    /\ Head(Top.hs) \in Firing
    /\ Len(ev) < MaxRunEvents
    /\ Commit(RunFire(Heap, NewEvent(name, "user", Top.cur, "handler", <<>>,
                                     NoFlags)))
    /\ UNCHANGED <<runvars, regvars, stack, nflush>>

\* The second thread calls fire: in _fire it takes the lock and evaluates
\* self._queue, the deque it is going to append to
OtherLoad(name, channels) ==
    /\ Alive
    /\ other.pc = "idle"
    /\ other.n < MaxOther
    /\ Len(ev) < MaxRunEvents
    /\ ev' = Append(ev, [NewEvent(name, "user", 0, "other", channels, NoFlags)
                           EXCEPT !.st = "created", !.at = Root])
    /\ other' = [pc |-> "locked", ref |-> nflush, e |-> Len(ev) + 1,
                 n |-> other.n + 1]
    /\ UNCHANGED <<regvars, call, running, genev, cache, queue, gens, tasks,
                   handling, exthread, stack, nflush>>

\* the flushes that iterate over the deque that was the root's queue when it
\* had been swapped `ref` times
IteratorsOf(ref) ==
    {i \in 1..Len(stack) : stack[i].op = "flush" /\ stack[i].id = ref + 1}

\* The second thread appends to the deque it evaluated, cuts the token short
\* and releases the lock.  The deque is the root's queue, or one a flush is
\* iterating over, or one that nothing refers to any more.
OtherAppend ==
    /\ other.pc = "locked"
    /\ LET e == other.e
           s0 == [Heap EXCEPT !.ev[e].st = "queued", !.ev[e].nfl = other.ref]
           s1 == IF other.ref = nflush
                 THEN [s0 EXCEPT !.queue[Root] = Enqueue(@, e)]
                 ELSE s0
       IN  Commit(ReduceToken(s1))
    /\ stack' = [i \in 1..Len(stack) |->
                    IF other.ref # nflush /\ i \in IteratorsOf(other.ref)
                    THEN [stack[i] EXCEPT !.q = Append(@, other.e),
                                          !.mut = TRUE]
                    ELSE stack[i]]
    /\ other' = [other EXCEPT !.pc = "idle"]
    /\ UNCHANGED <<regvars, call, running, genev, nflush>>

\* the next step of a flush whose deque was appended to meanwhile: the
\* iterator raises RuntimeError, which nothing in _flush catches
FlushCrash ==
    /\ InFrame("flush", "loop")
    /\ Top.mut
    /\ stack' = SetTop([Top EXCEPT !.pc = "crashed"])
    /\ UNCHANGED <<regvars, runvars, cache, queue, ev, gens, tasks, handling,
                   exthread, nflush>>

RunNames == {"b"}

RunStep ==
    \/ RunStart \/ RunLoop \/ RunReturn
    \/ TickCheck \/ TickToken \/ TickFire \/ TickFlush \/ TickEnd
    \/ Dispatch \/ HandlerReturn("none") \/ FallbackReturn \/ FlushEnd
    \/ FlushCrash
    \/ \E n \in RunNames : RunHandlerFire(n, <<>>)
    \/ HandlerStop \/ StopTick \/ StopEnd

NextRun ==
    \/ RunStep
    \/ SignalStop
    \/ \E n \in RunNames, c \in UserChannels : OtherLoad(n, c)
    \/ OtherAppend

SpecRun == Init /\ [][NextRun]_vars

\* The thread of run on its own, with tasks, stopped by a handler or by a
\* signal; a thread that is able to take a step takes one.
StopSteps == {"none", "stop"}

NextStop ==
    \/ RunStart \/ RunLoop \/ RunReturn
    \/ \E t \in (IF stack # <<>> THEN Top.todo ELSE {}), step \in StopSteps :
          ProcessTask(t, <<>>, step, "none")
    \/ TickCheck \/ TickToken \/ TickFire \/ TickFlush \/ TickEnd
    \/ Dispatch \/ HandlerReturn("none") \/ HandlerReturn("gen")
    \/ FallbackReturn \/ FlushEnd
    \/ \E n \in RunNames : RunHandlerFire(n, <<>>)
    \/ HandlerStop \/ StopTick \/ StopEnd
    \/ SignalStop

SpecStop == Init /\ [][NextStop]_vars /\ WF_vars(NextStop)

\* Targeting: the main program fires events with a manager instance as the
\* channel, while the child and its handlers come and go.
TargetNames == {"a"}
TargetReturns == {"none", "value", "error"}

NextTarget ==
    \/ \E n \in TargetNames, m \in Managers : FireMain(Root, n, <<m>>)
    \/ FlushCall
    \/ Dispatch
    \/ \E v \in TargetReturns : HandlerReturn(v)
    \/ FlushEnd
    \/ \E h \in TargetHandlers \cup {"d3"} : AddHandler(h)
    \/ RegisterChild
    \/ UnregisterChild

SpecTarget == Init /\ [][NextTarget]_vars

----------------------------------------------------------------------------
(* Success: events of the classes s (success_channels set) and u, with two  *)
(* handlers that return, raise, or suspend and go on as tasks              *)

SuccessNames == {"s", "u"}
SuccessSteps == {"none", "value", "stop", "raise"}

InitSuccess ==
    /\ InitRest
    /\ LET r == AddAll(NoRegistry, SuccessHandlers)
       IN  /\ globals = r.globals
           /\ handlers = r.handlers
           /\ cache = r.cache

NextSuccess ==
    \/ \E n \in SuccessNames, c \in UserChannels : FireMain(Root, n, c)
    \/ TickCall
    \/ Dispatch
    \/ \E v \in {"none", "value", "gen", "error"} : HandlerReturn(v)
    \/ FlushEnd
    \/ \E t \in tasks, step \in SuccessSteps :
          ProcessTask(t, <<>>, step, "none")
    \/ TickFlush
    \/ TickEnd

SpecSuccess == InitSuccess /\ [][NextSuccess]_vars

----------------------------------------------------------------------------
(* Events fired on one channel or on several                                *)

MultiNames == {"b"}
MultiChannels == {<<"x">>, <<"x", "*">>}
MultiReturns == {"none", "value", "error"}

NextMulti ==
    \/ \E n \in MultiNames, c \in MultiChannels : FireMain(Root, n, c)
    \/ FlushCall
    \/ Dispatch
    \/ \E v \in MultiReturns : HandlerReturn(v)
    \/ FlushEnd

SpecMulti == Init /\ [][NextMulti]_vars

----------------------------------------------------------------------------
(* callEvent and waitEvent: handler hc of event k is a generator that       *)
(* yields self.callEvent(b, *channels) once and then ends or yields a value *)

CallerNames == {"k"}
ParentSends == {"stop", "value"}

\* processTask for the task of hc: the generator yields the generator that
\* callEvent returns, which becomes a nested task
CallBegin ==
    /\ InFrame("tick", "tasks")
    /\ Top.rec = <<>>
    /\ call.st = "idle"
    /\ Len(gens) < MaxGens
    /\ \E t \in Top.todo :
          /\ Len(t) = 2
          /\ ev[t[1]].name \in CallerNames
          /\ LET r == processTask(Heap, t[1], t[2], 0, "gen", "none")
             IN  /\ Commit(r.heap)
                 /\ stack' = SetTop([Top EXCEPT !.todo = @ \ {t},
                                                !.rec = r.rec])
    /\ call' = [call EXCEPT !.st = "called"]
    /\ UNCHANGED <<regvars, running, genev, other, nflush>>

\* The recursive processTask resumes callEvent's generator for the first
\* time: it fires the event, and waitEvent(event.name, event.channels) adds
\* _on_event and _on_done and yields None.
CallFire(chs) ==
    /\ InFrame("tick", "tasks")
    /\ Top.rec # <<>>
    /\ call.st = "called"
    /\ Len(ev) < MaxEvents
    /\ LET s0 == fireEvent(Heap, Root,
                           NewEvent("b", "user", Top.rec[1], "gen", <<>>,
                                    NoFlags),
                           chs, DrainThread)
           r == addHandler(addHandler(Registry, Root, OnEvent(chs)),
                           Root, OnDone(chs))
       IN  /\ Commit([s0 EXCEPT !.cache = r.cache])
           /\ globals' = r.globals
           /\ handlers' = r.handlers
    /\ call' = [call EXCEPT !.st = "waiting", !.chans = chs,
                            !.e = Len(ev) + 1]
    /\ stack' = SetTop([Top EXCEPT !.rec = <<>>])
    /\ UNCHANGED <<components, rootOf, running, genev, other, nflush>>

\* processTask for the nested task while state['flag'] is false: waitEvent
\* yields None
CallPoll ==
    /\ InFrame("tick", "tasks")
    /\ Top.rec = <<>>
    /\ call.st = "waiting"
    /\ ~call.flag
    /\ \E t \in Top.todo :
          /\ Len(t) = 3
          /\ stack' = SetTop([Top EXCEPT !.todo = @ \ {t}])
    /\ UNCHANGED <<regvars, runvars, cache, queue, ev, gens, tasks, handling,
                   exthread, nflush>>

\* processTask for the nested task once state['flag'] is true: waitEvent
\* removes _on_done and ends, callEvent yields CallValue(value), which is
\* sent to the generator of hc; `sent` is what that one does then
CallReturn(sent) ==
    /\ InFrame("tick", "tasks")
    /\ Top.rec = <<>>
    /\ call.st = "waiting"
    /\ call.flag
    /\ \E t \in Top.todo :
          /\ Len(t) = 3
          /\ LET r == removeHandler(Registry, Root, OnDone(call.chans),
                                    "b_done")
                 p == processTask([Heap EXCEPT !.cache = r.cache],
                                  t[1], t[2], t[3], "callvalue", sent)
             IN  /\ Commit(p.heap)
                 /\ globals' = r.globals
                 /\ handlers' = r.handlers
                 /\ stack' = SetTop([Top EXCEPT !.todo = @ \ {t},
                                                !.rec = p.rec])
    /\ call' = [call EXCEPT !.st = "resumed", !.got = ev[call.e].value]
    /\ UNCHANGED <<components, rootOf, running, genev, other, nflush>>

\* the generator of hc, re-registered as a task, comes to its end
CallerEnds ==
    /\ call.st = "resumed"
    /\ \E t \in (IF stack # <<>> THEN Top.todo ELSE {}) :
          ProcessTask(t, <<>>, "stop", "none")

\* waitEvent's _on_event returns
OnEventReturn ==
    /\ InFrame("flush", "handler")
    /\ Head(Top.hs) \in OnEventHandlers
    /\ LET r == IF call.run THEN Registry
                ELSE removeHandler(Registry, Root, Head(Top.hs), "b")
           s0 == IF call.run THEN Heap
                 ELSE [Heap EXCEPT !.cache = r.cache,
                                   !.ev[Top.cur].alert_done = TRUE]
       IN  /\ ReturnStep(s0, "none")
           /\ globals' = r.globals
           /\ handlers' = r.handlers
    /\ call' = IF call.run THEN call
               ELSE [call EXCEPT !.run = TRUE, !.event = Top.cur]
    /\ UNCHANGED <<components, rootOf, running, genev, other, nflush>>

\* waitEvent's _on_done returns
OnDoneReturn ==
    /\ InFrame("flush", "handler")
    /\ Head(Top.hs) \in OnDoneHandlers
    /\ ReturnStep(Heap, "none")
    /\ call' = IF call.event = ev[Top.cur].src
               THEN [call EXCEPT !.flag = TRUE] ELSE call
    /\ UNCHANGED <<regvars, running, genev, other, nflush>>

\* The main program fires k and goes on calling tick(), which it does as
\* long as there is a task or a queued event.
NextCall ==
    \/ /\ ev = <<>>
       /\ \E n \in CallerNames, c \in UserChannels : FireMain(Root, n, c)
    \/ TickCall \/ TickFlush \/ TickEnd
    \/ Dispatch
    \/ HandlerReturn("none") \/ HandlerReturn("value")
    \/ (stack # <<>> /\ Top.hs # <<>> /\ Head(Top.hs) = "hc"
          /\ HandlerReturn("gen"))
    \/ FlushEnd
    \/ CallBegin
    \/ \E chs \in CallChannels : CallFire(chs)
    \/ CallPoll
    \/ \E sent \in ParentSends : CallReturn(sent)
    \/ CallerEnds
    \/ OnEventReturn \/ OnDoneReturn

SpecCall == Init /\ [][NextCall]_vars /\ WF_vars(NextCall)

----------------------------------------------------------------------------
(* Properties of the dispatch core (Spec)                                  *)

Count(s, v) == Cardinality({i \in DOMAIN s : s[i] = v})
Queued(e) == ev[e].st = "queued"
FlushFrames == {i \in DOMAIN stack : stack[i].op = "flush"}

\* the events of class `kind` that the code `by` fired about event e
Derived(kind, e, by) ==
    {d \in DOMAIN ev : ev[d].kind = kind /\ ev[d].src = e /\ ev[d].by = by}

\* handler h of event e stopped the dispatch of e as a filter
Filtered(e, i) ==
    HandlerDef[ev[e].hl[i]].filter /\ ev[e].outs[i] \in {"value", "gen"}

(* C1, as stated: events are dispatched in the order they were appended to
   the root queue; when A was appended before B, A is dispatched before B.
   (Event ids number the events in the order of their append.)            *)
C1_StrictFifo ==
    \A a, b \in DOMAIN ev : a < b /\ ~Queued(b) => ~Queued(a)

(* C1, amended: B is dispatched before an event A that was appended earlier
   only by a flush that a handler called while A was waiting in the snapshot
   of a flush still running; in every other case dispatch is FIFO.        *)
C1_FifoUnlessNested ==
    \A a, b \in DOMAIN ev :
        a < b /\ ~Queued(b) /\ Queued(a) =>
            \E i \in FlushFrames :
                a \in Range(stack[i].q) /\ ev[b].fl > stack[i].id

C1_Overtaken ==
    \E a, b \in DOMAIN ev : a < b /\ ev[b].st = "dispatched" /\ Queued(a)

(* C2: a flush dispatches exactly the events that were in the root queue
   when it started.  An event is dispatched by the first flush that starts
   after it was queued and by no other, so an event fired while a flush runs
   is not dispatched by that flush; until then it waits in the root queue,
   and from then on in the snapshot of that flush.                         *)
C2_SnapshotFlush ==
    \A e \in DOMAIN ev :
        /\ ~Queued(e) => ev[e].fl = ev[e].nfl + 1
        /\ Queued(e) =>
             \/ ev[e].nfl = nflush /\ e \in Range(queue[Root])
             \/ \E i \in FlushFrames :
                  stack[i].id = ev[e].nfl + 1 /\ e \in Range(stack[i].q)

C2_FiredInFlushDispatchedLater ==
    \E e \in DOMAIN ev :
        /\ ev[e].by = "handler"
        /\ ev[e].st = "dispatched"
        /\ ev[e].fl > ev[e].nfl

(* C3, as stated: for two handlers a and b invoked for one event, a is
   invoked before b if and only if _sortkey(a) > _sortkey(b).             *)
C3_OrderIffKeyGreater ==
    \A e \in DOMAIN ev :
        \A i, j \in 1..Len(ev[e].outs) :
            i # j =>
              (i < j <=> KeyGreater(_sortkey(ev[e].hl[i]),
                                    _sortkey(ev[e].hl[j])))

(* C3, amended: the handlers of one event are invoked in an order of
   non-increasing _sortkey: a handler with a greater key is invoked before
   one with a smaller key; the order of handlers of equal key is open.     *)
C3_OrderNonIncreasing ==
    \A e \in DOMAIN ev :
        \A i, j \in 1..Len(ev[e].outs) :
            i < j => ~KeyGreater(_sortkey(ev[e].hl[j]),
                                 _sortkey(ev[e].hl[i]))

C3_TwoInvokedInKeyOrder ==
    \E e \in DOMAIN ev :
        /\ Len(ev[e].outs) = 2
        /\ KeyGreater(_sortkey(ev[e].hl[1]), _sortkey(ev[e].hl[2]))

(* C4: once a handler with filter = True has returned a truthy value, no
   handler after it in the order is invoked for that event.                *)
C4_FilterStops ==
    \A e \in DOMAIN ev :
        \A i \in 1..Len(ev[e].outs) :
            Filtered(e, i) => Len(ev[e].outs) = i

C4_FilterStopped ==
    \E e \in DOMAIN ev :
        /\ ev[e].st = "dispatched"
        /\ Len(ev[e].outs) < Len(ev[e].hl)
        /\ Filtered(e, Len(ev[e].outs))

(* C5, as stated: when a handler raises, the handlers after it are still
   invoked unless an earlier filter stopped the dispatch; also when the
   handler that raised has filter = True.                                  *)
C5_ErrorIsolation ==
    \A e \in DOMAIN ev :
        ( /\ ev[e].st = "dispatched"
          /\ \E i \in 1..Len(ev[e].outs) : ev[e].outs[i] = "error"
          /\ \A i \in 1..Len(ev[e].outs) : ~Filtered(e, i) )
        => Len(ev[e].outs) = Len(ev[e].hl)

(* C6: each raise of a handler of event e sets event.value.errors, fires one
   Error event, and one Failure event on the channels of e exactly when
   event.failure is set; nothing is fired without a raise, and the flush
   keeps every event of its snapshot: a queued event is in the root queue or
   in the snapshot of a running flush.                                     *)
C6_HandlerException ==
    /\ \A e \in DOMAIN ev :
         LET raised == Count(ev[e].outs, "error")
         IN  /\ raised > 0 => ev[e].errors
             /\ Cardinality(Derived("error", e, "dispatch")) = raised
             /\ Cardinality(Derived("failure", e, "dispatch")) =
                    IF ev[e].failure THEN raised ELSE 0
             /\ \A d \in Derived("failure", e, "dispatch") :
                    ev[d].channels = ev[e].channels
    /\ \A e \in DOMAIN ev :
         Queued(e) =>
            \/ e \in Range(queue[Root])
            \/ \E i \in FlushFrames : e \in Range(stack[i].q)

C6_RaisedWithFailure ==
    \E e \in DOMAIN ev :
        /\ ev[e].failure
        /\ "error" \in Range(ev[e].outs)
        /\ ev[e].st = "dispatched"
        /\ ev[e].errors
        /\ Derived("error", e, "dispatch") # {}
        /\ Derived("failure", e, "dispatch") # {}
        /\ InFrame("flush", "loop")
        /\ Top.id = ev[e].fl


----------------------------------------------------------------------------
(* Properties of the task runner (SpecTask)                                *)

\* the task tuples of event e
TasksOf(e) == {t \in tasks : t[1] = e}

\* event x was fired by a handler of event e, or by a task of e, or by a
\* handler or task of an event so fired
RECURSIVE CausedBy(_, _)
CausedBy(x, e) ==
    /\ ev[x].by \in {"handler", "gen"}
    /\ ev[x].src # 0
    /\ ev[x].src = e \/ CausedBy(ev[x].src, e)

(* C7, as stated: the completion actions of _eventDone run exactly once for
   a dispatched event E and only when E.waitingHandlers = 0: at the end of
   the dispatch when no handler suspended, and else when the last task of E
   is gone.                                                                *)
C7_CompletionOnce ==
    \A e \in DOMAIN ev :
        ev[e].st = "dispatched" =>
            /\ ev[e].doneRuns <= 1
            /\ ev[e].waitingHandlers > 0 => ev[e].doneRuns = 0
            /\ TasksOf(e) = {} => ev[e].doneRuns = 1

(* C8, as stated: between two steps of the tick loop, E.waitingHandlers is
   the number of task tuples of the root's task set whose event is E.      *)
C8_WaitingEqualsTasks ==
    (stack = <<>> \/ (InFrame("tick", "tasks") /\ Top.rec = <<>>)) =>
        \A e \in DOMAIN ev :
            ev[e].waitingHandlers = Cardinality(TasksOf(e))

(* C9, as stated: for an event E with complete = True, Complete is fired at
   most once, and only after every event that the handlers and the tasks of
   E caused, directly or through other events, has been dispatched.        *)
C9_CompleteAfterEffects ==
    \A e \in DOMAIN ev :
        ev[e].complete =>
            /\ Cardinality(Derived("complete", e, "done")) <= 1
            /\ Derived("complete", e, "done") # {} =>
                 \A x \in DOMAIN ev :
                     CausedBy(x, e) => ev[x].st = "dispatched"

\* the generators that raise in this step: they end, and processTask fires
\* Error for their event
TaskErrors ==
    {i \in Len(ev) + 1..Len(ev') : ev'[i].kind = "error" /\ ev'[i].by = "task"}

Raising ==
    {g \in 1..Len(gens) : ~gens[g].done /\ gens'[g].done /\ TaskErrors # {}}

\* C19: when the iterator of a task raises in processTask, no tuple of that
\* iterator, top-level or nested, is in the task set afterwards, the event's
\* value has errors set and is informed, Error is fired, and Failure is
\* fired if the event's failure flag is set.
C19_FailedTaskUnregistered ==
    [][/\ \A g \in Raising : \A t \in tasks' : t[2] # g
       /\ \A i \in TaskErrors :
             LET e == ev'[i].src
             IN  /\ ev'[e].errors /\ ev'[e].informed
                 /\ ev[e].failure =>
                       \E j \in Len(ev) + 1..Len(ev') :
                           ev'[j].kind = "failure" /\ ev'[j].src = e
      ]_vars

----------------------------------------------------------------------------
(* Properties of the registry (SpecReg)                                    *)

(* C10, as stated: after any sequence of addHandler, removeHandler,
   registerChild and unregisterChild calls, the handler list the dispatcher
   uses for a (name, channels) is one that getHandlers, recomputed over the
   current tree and sorted, gives: a cached list is never out of date.      *)
C10_CacheConsistent ==
    \A key \in DOMAIN cache[Root] :
        cache[Root][key] \in ResolveHandlers(Root, key[1], key[2])

\* handler h is in the registry of its owner
Registered(h) ==
    LET o == HandlerDef[h].owner
    IN  \/ h \in globals[o]
        \/ \E k \in DOMAIN handlers[o] : h \in handlers[o][k]

(* C11, as stated: in a registry where handler h is not registered,
   addHandler(h) followed by removeHandler(h) leaves globals and the
   handlers map as they were, for named and for unnamed handlers.          *)
C11_AddRemoveRoundTrip ==
    \A h \in DynamicHandlers :
        ~Registered(h) =>
            LET o == HandlerDef[h].owner
                r == removeHandler(addHandler(Registry, o, h), o, h, None)
            IN  r.globals = globals /\ r.handlers = handlers

\* the number of places that hold event e: the queues and the snapshots of
\* the running flushes
Holders(e) ==
    Count(queue[Root], e) + Count(queue[Child], e)
        + Cardinality({i \in FlushFrames : e \in Range(stack[i].q)})

(* C12: registerChild(c) appends the events of c's local queue to the root
   queue in their order and empties c's queue; unregisterChild(c) leaves the
   queues alone; an event fired on c is held once (by a queue or by the
   snapshot of a running flush) until it is dispatched, nowhere afterwards,
   and is not dispatched a second time.                                    *)
C12_ChildEventsMigrate ==
    /\ [](\A e \in DOMAIN ev :
            /\ \A i \in FlushFrames : Count(stack[i].q, e) <= 1
            /\ ev[e].at = Child =>
                 Holders(e) = IF Queued(e) THEN 1 ELSE 0)
    /\ [][/\ (Child \notin components[Root] /\ Child \in components'[Root]) =>
               /\ queue'[Root] = queue[Root] \o queue[Child]
               /\ queue'[Child] = <<>>
          /\ (Child \in components[Root] /\ Child \notin components'[Root]) =>
               queue' = queue
          /\ \A e \in DOMAIN ev :
               ~Queued(e) => ev'[e].fl = ev[e].fl /\ ev'[e].st # "queued"
         ]_vars

C12_MigratedDispatchedAfterUnregister ==
    \E e \in DOMAIN ev :
        /\ ev[e].at = Child
        /\ ev[e].st = "dispatched"
        /\ Child \notin components[Root]
        /\ InFrame("flush", "loop")
        /\ Top.id = ev[e].fl

----------------------------------------------------------------------------
(* Properties of the run loop (SpecRun)                                     *)

\* the handler of the fallback generator is waiting on its token
Blocked ==
    /\ InFrame("flush", "handler")
    /\ Head(Top.hs) = Fallback
    /\ ev[Top.cur].time_left < 0

\* event e is in the root's queue, or in the snapshot of a flush that is
\* still able to go on
InReach(e) ==
    \/ e \in Range(queue[Root])
    \/ \E i \in 1..Len(stack) :
          /\ stack[i].op = "flush"
          /\ ~stack[i].mut
          /\ e \in Range(stack[i].q)

\* C13: once a thread other than the executing thread has fired an event
\* while a GenerateEvents token exists, the token has no time left, and the
\* event, until it is dispatched, is in the root's queue or in the snapshot
\* a flush is working through, so that it is dispatched eventually.
C13_CrossThreadWakeUp ==
    (other.pc = "idle" /\ other.e # 0 /\ genev # 0) =>
        /\ ev[other.e].st = "queued" => InReach(other.e)
        /\ ev[other.e].st = "queued" => ~Blocked

\* C18: the step of stop() that sets running to false leaves no
\* GenerateEvents token in the root's queue when Stopped is enqueued, and
\* keeps the other entries that were queued, in their order.
C18_StopRemovesTokens ==
    [][(running /\ ~running') =>
          /\ \A i \in 1..Len(queue'[Root]) :
                ev'[queue'[Root][i]].kind # "generate"
          /\ SelectSeq(queue'[Root], LAMBDA e : e <= Len(ev))
                = SelectSeq(queue[Root], LAMBDA e : ev[e].kind # "generate")
      ]_vars

\* the Stopped event of the one call of stop() that finds the manager running
StoppedEvent == CHOOSE e \in 1..Len(ev) : ev[e].kind = "stopped"

\* stop() has run its three ticks and is about to return
StopReturns == InFrame("stop", "ticks") /\ Top.id = 3

\* the events a handler fired after Stopped that are not dispatched yet
LeftByHandlers ==
    {e \in 1..Len(ev) : /\ e > StoppedEvent
                        /\ ev[e].by = "handler"
                        /\ ev[e].st = "queued"}

\* C15 as stated: when stop() returns, every event that handlers fired after
\* Stopped has been dispatched by its three ticks, none is still queued.
C15_StopDrains == StopReturns => LeftByHandlers = {}

\* C15: stop() returns after three ticks, and an event fired by a handler
\* after Stopped that is not dispatched by then is in the root's queue, and
\* was fired while the flush of the third tick dispatched its source; what
\* handlers fired in the first two ticks has been dispatched.
C15_StopLeavesLastFlush ==
    StopReturns =>
        /\ Len(Top.q) = 3
        /\ \A e \in LeftByHandlers :
              /\ e \in Range(queue[Root])
              /\ ev[ev[e].src].fl = Top.q[3] + 1

\* stop() returns while an event fired in its third tick is queued
C15_LeftAfterStop ==
    StopReturns /\ LeftByHandlers # {}

----------------------------------------------------------------------------
(* Properties of shutdown (SpecStop)                                        *)

----------------------------------------------------------------------------
(* Properties of completion tracking (SpecCause)                            *)

\* the events created by the step
NewEvents == Len(ev) + 1..Len(ev')

\* the events e caused directly whose subtree is not done
OpenEffects(e) == {k \in 1..Len(ev) : k # e /\ ev[k].cause = e}

\* C20: an event a handler fires while handling an event P that has a cause
\* gets cause P and effects 1, and P.effects grows by one; an event fired
\* by the main program while nothing is handled gets no cause; an event
\* with a cause has effects >= 1, namely 1 if its own _eventDone has not
\* run yet plus the number of its direct effects that are not done; and
\* Complete is fired for an event only in the step that brings its counter
\* from 1 to 0.
C20_CauseBookkeeping ==
    /\ [](\A e \in 1..Len(ev) :
            ev[e].cause # 0 =>
                /\ ev[e].effects >= 1
                /\ ev[e].effects = (IF ev[e].doneRuns = 0 THEN 1 ELSE 0)
                                   + Cardinality(OpenEffects(e)))
    /\ [][\A i \in NewEvents :
            /\ (ev'[i].by = "handler" /\ ev[ev'[i].src].cause # 0) =>
                  /\ ev'[i].cause = ev'[i].src
                  /\ ev'[i].effects = 1
                  /\ ev'[ev'[i].src].effects = ev[ev'[i].src].effects + 1
            /\ ev'[i].by = "main" => ev'[i].cause = 0
            /\ ev'[i].kind = "complete" =>
                  /\ ev[ev'[i].src].effects = 1
                  /\ ev'[ev'[i].src].effects = 0
         ]_vars

----------------------------------------------------------------------------
(* Properties of targeting (SpecTarget)                                     *)

\* the event was fired with a manager instance as its only channel
Targeted(e) == Len(ev[e].channels) = 1 /\ ev[e].channels[1] \in Managers

\* the last value a handler produced that is not None
LastValue(outs) ==
    LET set == {i \in 1..Len(outs) : outs[i] # "none"}
    IN  IF set = {} THEN "none"
        ELSE outs[CHOOSE i \in set : \A j \in set : j <= i]

\* C16: for an event fired with manager M as its channel, the handler list
\* is, M being in the tree, M's handlers for the name, M's "*" bucket and
\* M's globals, whatever their channels are; no handler of another manager
\* is in it, whether M is in the tree or not; the event's
\* value is what the handlers returned; and Success is fired at the end of
\* the dispatch exactly if the event's success flag is set and no handler
\* raised.
C16_DirectTargeting ==
    /\ [](\A e \in 1..Len(ev) :
            Targeted(e) =>
                /\ \A h \in Range(ev[e].hl) :
                      HandlerDef[h].owner = ev[e].channels[1]
                /\ ev[e].value = LastValue(ev[e].outs))
    /\ [][\A e \in 1..Len(ev) :
            Targeted(e) =>
                LET m == ev[e].channels[1]
                IN  /\ (/\ ev[e].st = "queued" /\ ev'[e].st # "queued"
                         /\ rootOf[m] = Root) =>
                          Range(ev'[e].hl) = Bucket(m, "*")
                                             \cup Bucket(m, ev[e].name)
                                             \cup globals[m]
                    /\ (ev[e].st # "dispatched" /\ ev'[e].st = "dispatched")
                          => ((ev[e].success
                               /\ "error" \notin Range(ev'[e].outs))
                              <=> \E i \in Len(ev) + 1..Len(ev') :
                                     /\ ev'[i].kind = "success"
                                     /\ ev'[i].src = e)
         ]_vars

\* an event targeted at the child was handled by the child's handler, whose
\* channel is not the event's, got its value, and Success was fired, while
\* the root has handlers for the same name
C16_TargetedAtChild ==
    \E e \in 1..Len(ev) :
        /\ ev[e].channels = <<Child>>
        /\ Child \in components[Root]
        /\ ev[e].st = "dispatched"
        /\ "d4" \in Range(ev[e].hl)
        /\ ev[e].value = "value"
        /\ Bucket(Root, ev[e].name) # {}
        /\ \E i \in 1..Len(ev) : ev[i].kind = "success" /\ ev[i].src = e

----------------------------------------------------------------------------
(* Properties of callEvent (SpecCall)                                       *)

\* C17: a handler that yields callEvent(e, channels) is resumed eventually,
\* whatever the channels are, with e's value, after e and its Done event
\* were dispatched; then _on_done is registered no more, and the event of
\* the handler gets its waitingHandlers back to 0.
C17_CallResumes ==
    /\ call.st = "waiting" ~> call.st = "resumed"
    /\ [](call.st = "resumed" =>
            /\ call.got = ev[call.e].value
            /\ ev[call.e].st = "dispatched"
            /\ \E d \in 1..Len(ev) :
                  /\ ev[d].kind = "done" /\ ev[d].src = call.e
                  /\ ev[d].st = "dispatched"
            /\ OnDone(call.chans) \notin Bucket(Root, "b_done"))
    /\ call.st = "resumed" ~>
          (call.e # 0 /\ ev[ev[call.e].src].waitingHandlers = 0)

----------------------------------------------------------------------------
(* Properties of Success (SpecSuccess)                                      *)

\* the Success events fired for event e
SuccessesOf(e) ==
    {i \in 1..Len(ev) : ev[i].kind = "success" /\ ev[i].src = e}

\* a handler of e raised, in the dispatcher or later as a task
SomeHandlerFailed(e) ==
    \E i \in 1..Len(ev) : ev[i].kind = "error" /\ ev[i].src = e

\* every handler of e that was called has come to its end
HandlersFinished(e) ==
    /\ ev[e].st = "dispatched"
    /\ TasksOf(e) = {}

SuccessOnlyIf ==
    \A e \in 1..Len(ev) :
        SuccessesOf(e) # {} => ev[e].success /\ ~SomeHandlerFailed(e)

SuccessIf ==
    \A e \in 1..Len(ev) :
        (HandlersFinished(e) /\ ev[e].success /\ ~SomeHandlerFailed(e))
            => SuccessesOf(e) # {}

SuccessChannels ==
    \A e \in 1..Len(ev) : \A i \in SuccessesOf(e) :
        ev[i].channels = IF ev[e].success_channels # <<>>
                         THEN ev[e].success_channels ELSE ev[e].channels

\* C21: a Success event is fired for E exactly when E.success is set and no
\* handler of E failed, whether the handlers ended inside the dispatcher or
\* were suspended and ended later as tasks; it is fired on success_channels
\* if E has them, else on E's channels.
C21_SuccessIffNoFailure ==
    /\ SuccessOnlyIf
    /\ SuccessIf
    /\ SuccessChannels

----------------------------------------------------------------------------
(* Properties of removeHandler (SpecReg)                                    *)

\* the names removeHandler(h, event) goes through
NamesToRemove(h, event) ==
    IF event = None THEN Range(HandlerDef[h].names) ELSE {event}

\* one of these buckets is missing, or does not hold h
MissingFromBucket(h, event) ==
    \E n \in NamesToRemove(h, event) :
        LET b == handlers[HandlerDef[h].owner]
        IN  n \notin DOMAIN b \/ h \notin b[n]

\* C22: removeHandler(h) or removeHandler(h, name) for a handler that is not
\* in the named bucket (the bucket is missing, or h is not in it) ends
\* without an error and leaves the handler registry as it was.
C22_RemoveMissingTolerated ==
    \A h \in DynamicHandlers, event \in RemoveArgs :
        MissingFromBucket(h, event) =>
            LET o == HandlerDef[h].owner
                r == removeHandler(Registry, o, h, event)
            IN  /\ ~removeHandlerRaises(Registry, o, h, event)
                /\ r.globals = globals
                /\ r.handlers = handlers

----------------------------------------------------------------------------
(* Properties of fire from a second thread (SpecRun)                        *)

\* C23: no event is lost or duplicated, however the fire calls of a thread
\* other than the executing one interleave with the queue swap of _flush
\* and the queue rebuild of stop: a fired event that is not dispatched yet is
\* held once, by the root's queue or by the snapshot of a flush that goes
\* on, and an event that was dispatched is held nowhere, so that every
\* fired event is dispatched exactly once.
C23_DispatchedExactlyOnce ==
    \A e \in 1..Len(ev) :
        /\ ev[e].st = "queued" => InReach(e) /\ Holders(e) = 1
        /\ ev[e].st \in {"handling", "dispatched"} => Holders(e) = 0

----------------------------------------------------------------------------
(* Properties of events on several channels (SpecMulti)                     *)

\* C24: in one dispatch of an event no handler is invoked twice, also when
\* the event is on several channels and a handler matches more than one.
C24_InvokedAtMostOnce ==
    \A e \in 1..Len(ev) :
        \A i, j \in 1..Len(ev[e].outs) :
            i # j => ev[e].hl[i] # ev[e].hl[j]

----------------------------------------------------------------------------
(* Properties of the dispatch context (SpecRun)                             *)

HandlerOnExecutingThread ==
    InFrame("flush", "handler") => exthread = DrainThread

HandlerEventIsCurrent == InFrame("flush", "handler") => handling = Top.cur

\* C25: while a handler runs inside the dispatcher, _executing_thread is the
\* dispatching thread and _currently_handling is the event being dispatched,
\* also after this handler, or an earlier one of the same flush, has called
\* stop(), tick() or flush(); so the events a handler fires always take the
\* same-thread path of _fire.
C25_HandlerContext ==
    /\ HandlerOnExecutingThread
    /\ HandlerEventIsCurrent

====
